---- MODULE Spec2Model ----
(***************************************************************************)
(* Policy-document module of the Wakanda backend                           *)
(* (src/backend/app/policy): the policy_documents, policy_analytics and    *)
(* policy_comments tables and the request handlers of routers.py; the      *)
(* transactions of the finance module and the chat of the ai module.       *)
(*                                                                         *)
(* Text columns that are pattern-matched (title, summary, content,         *)
(* keywords, document_number) are sequences of one-character strings;      *)
(* categorical columns are strings.  A DateTime is a number of clock       *)
(* ticks, TicksPerDay ticks to the calendar day.  Floats are scaled        *)
(* integers: a relevance score is kept in tenths.                          *)
(*                                                                         *)
(* Requests are served one at a time: a handler runs when no response is   *)
(* pending (last = Idle) and leaves its response in `last`; Respond hands  *)
(* it to the caller.                                                       *)
(***************************************************************************)
EXTENDS Integers, Sequences, FiniteSets, TLC

VARIABLES docs, analytics, comments, now, last, evlog, sessions,
          citations, budgets, transactions, chat_sessions, chat_messages

\* the tables of the other modules, and the policy_citations table, which
\* no handler of the policy router reads or writes
other_tables == <<citations, budgets, transactions, chat_sessions, chat_messages>>

\* the tables and the worker threads of the policy router
policy_tables == <<docs, analytics, comments, evlog, sessions>>

vars == <<docs, analytics, comments, now, last, evlog, sessions, other_tables>>

-----------------------------------------------------------------------------
(* Bounds of the model *)

MaxDocs == 2
MaxSkip == 1
MaxLimit == 2
MaxEvents == 3
MaxSearchEvents == 1
MaxTime == 2

-----------------------------------------------------------------------------
(* Values *)

\* Python None / SQL NULL of a categorical or numeric column
None == "None"
\* SQL NULL of a text column
NullText == <<"NULL">>
\* SQL NULL of a DateTime column
NullTime == -1
\* a query parameter the request leaves out
Omitted == "Omitted"

HTTP_200_OK == 200
HTTP_400_BAD_REQUEST == 400
HTTP_403_FORBIDDEN == 403
HTTP_404_NOT_FOUND == 404

TITLE_SCORE == 10
SUMMARY_SCORE == 7
CONTENT_SCORE == 5

Min(a, b) == IF a <= b THEN a ELSE b
Max(a, b) == IF a >= b THEN a ELSE b

\* the clock ticks of a calendar day
TicksPerDay == 2
\* date component of a DateTime
DateOf(ts) == ts \div TicksPerDay
MaxDay == DateOf(MaxTime)

\* the principals the auth collaborator can supply
Users ==
    { [id |-> 1, role |-> "admin"],
      [id |-> 2, role |-> "government_official"],
      [id |-> 3, role |-> "government_official"],
      [id |-> 4, role |-> "citizen"] }

-----------------------------------------------------------------------------
(* ILIKE *)

\* mutant: the match keeps the case of the characters
Lower_CaseSensitive(c) == c

\* lower() of one character, over the alphabet of the model
Lower(c) ==
    CASE c = "W" -> "w"
      [] c = "A" -> "a"
      [] OTHER -> c

\* SQL LIKE: % matches any run of characters, _ any one character
RECURSIVE LikeMatch(_, _)
LikeMatch(p, s) ==
    IF p = <<>> THEN s = <<>>
    ELSE IF Head(p) = "%"
         THEN LikeMatch(Tail(p), s) \/ (s # <<>> /\ LikeMatch(p, Tail(s)))
         ELSE /\ s # <<>>
              /\ (Head(p) = "_" \/ Lower(Head(p)) = Lower(Head(s)))
              /\ LikeMatch(Tail(p), Tail(s))

\* column.ilike(f"%{query}%"); NULL ILIKE p is NULL, which a filter drops
ilike(col, query) ==
    /\ col # NullText
    /\ LikeMatch(<<"%">> \o query \o <<"%">>, col)

-----------------------------------------------------------------------------
(* Tables *)

Idle == [op |-> "idle"]

Ids(tbl) == 1..Len(tbl)

\* PolicyDocument(**document.dict(), created_by=...) with the column defaults
NewDocument(document, user_id, t) ==
    [ title |-> document.title,
      document_number |-> document.document_number,
      document_type |-> document.document_type,
      category |-> document.category,
      department |-> document.department,
      summary |-> document.summary,
      content |-> document.content,
      keywords |-> document.keywords,
      effective_date |-> document.effective_date,
      expiry_date |-> document.expiry_date,
      status |-> "active",
      version |-> document.version,
      language |-> document.language,
      file_url |-> document.file_url,
      created_by |-> user_id,
      reviewed_by |-> None,
      is_public |-> document.is_public,
      view_count |-> 0,
      created_at |-> t,
      updated_at |-> NullTime ]

\* mutant: the row of a new day starts with every counter at its default
NewAnalytics_Defaults(document_id, stamp, counter) ==
    [ f \in {"policy_document_id", "analytics_date", "views", "downloads",
             "comments_count", "citations_count", "search_appearances"} |->
        CASE f = "policy_document_id" -> document_id
          [] f = "analytics_date" -> stamp
          [] OTHER -> 0 ]

\* PolicyAnalytics(policy_document_id=..., analytics_date=..., <counter>=1)
NewAnalytics(document_id, stamp, counter) ==
    [ f \in {"policy_document_id", "analytics_date", "views", "downloads",
             "comments_count", "citations_count", "search_appearances"} |->
        CASE f = "policy_document_id" -> document_id
          [] f = "analytics_date" -> stamp
          [] f = counter -> 1
          [] OTHER -> 0 ]

\* .filter(policy_document_id == id, func.date(analytics_date) == today).first()
FirstAnalytics(rows, document_id, today) ==
    LET hits == { i \in 1..Len(rows) :
                    /\ rows[i].policy_document_id = document_id
                    /\ DateOf(rows[i].analytics_date) = today }
    IN  IF hits = {} THEN 0 ELSE CHOOSE i \in hits : \A j \in hits : i <= j

\* mutant: a row is added for every event
UpsertAnalytics_AlwaysInsert(rows, document_id, today, stamp, counter) ==
    Append(rows, NewAnalytics(document_id, stamp, counter))

\* mutant: every event is also counted as a download
UpsertAnalytics_CountsDownload(rows, document_id, today, stamp, counter) ==
    LET i == FirstAnalytics(rows, document_id, today)
    IN  IF i # 0
        THEN [rows EXCEPT ![i][counter] = @ + 1, ![i].downloads = @ + 1]
        ELSE Append(rows, [NewAnalytics(document_id, stamp, counter) EXCEPT !.downloads = 1])

\* the update-or-create of the daily row: today is read first, the creation
\* stamp is a second reading of the clock
UpsertAnalytics(rows, document_id, today, stamp, counter) ==
    LET i == FirstAnalytics(rows, document_id, today)
    IN  IF i # 0
        THEN [rows EXCEPT ![i][counter] = @ + 1]
        ELSE Append(rows, NewAnalytics(document_id, stamp, counter))

\* reading number r of the clock in a handler that starts at t, when the
\* clock ticks after the first c readings
ClockAt(r, c, t) == IF r <= c THEN t ELSE t + 1

-----------------------------------------------------------------------------
(* Worker threads: the handlers are plain functions, which the framework   *)
(* runs on a pool of threads, each request with a database session of its  *)
(* own                                                                     *)

Workers == {1, 2}

IdleSession == [pc |-> "idle"]

\* no request is on a worker; `overlapped` records whether two requests
\* were ever in progress at once
NoSessions == [of |-> [w \in Workers |-> IdleSession], overlapped |-> FALSE]

-----------------------------------------------------------------------------
(* create_policy_document *)

\* mutant: every role may write
CanWrite_Anyone(user) == TRUE

CanWrite(user) == user.role \in {"admin", "government_official"}

\* mutant: the lookup of the document number finds nothing
NumberExists_Never(tbl, number) == FALSE

NumberExists(tbl, number) ==
    \E i \in Ids(tbl) : tbl[i].document_number = number

Create(user, document) ==
    /\ last = Idle
    /\ UNCHANGED <<sessions, other_tables>>
    /\ IF ~CanWrite(user)
       THEN /\ last' = [op |-> "create", status_code |-> HTTP_403_FORBIDDEN,
                        user |-> user, args |-> document]
            /\ UNCHANGED docs
       ELSE IF NumberExists(docs, document.document_number)
       THEN /\ last' = [op |-> "create", status_code |-> HTTP_400_BAD_REQUEST,
                        user |-> user, args |-> document]
            /\ UNCHANGED docs
       ELSE /\ Len(docs) < MaxDocs
            /\ docs' = Append(docs, NewDocument(document, user.id, now))
            /\ last' = [op |-> "create", status_code |-> HTTP_200_OK,
                        user |-> user, args |-> document,
                        body |-> Len(docs) + 1]
    /\ UNCHANGED <<analytics, comments, now, evlog>>

-----------------------------------------------------------------------------
(* search_policy_documents *)

\* status: Optional[str] = Query("active")
StatusParam(given) == IF given = Omitted THEN "active" ELSE given
\* Optional[str] = Query(None)
FilterParam(given) == IF given = Omitted THEN None ELSE given

\* truth value of an Optional[str]
Truthy(x) == x # None /\ x # ""

\* mutant: the visibility filter is left out
InBase_NoVisibility(d, f) ==
    /\ (Truthy(f.status) => d.status = f.status)
    /\ (Truthy(f.document_type) => d.document_type = f.document_type)
    /\ (Truthy(f.category) => d.category = f.category)
    /\ (Truthy(f.department) => d.department = f.department)

\* base_query: public documents that pass the filters that are given
InBase(d, f) ==
    /\ d.is_public = TRUE
    /\ (Truthy(f.status) => d.status = f.status)
    /\ (Truthy(f.document_type) => d.document_type = f.document_type)
    /\ (Truthy(f.category) => d.category = f.category)
    /\ (Truthy(f.department) => d.department = f.department)

\* search_query: base_query filtered by the five-column OR
InSearchQuery(d, f) ==
    /\ InBase(d, f)
    /\ \/ ilike(d.title, f.query)
       \/ ilike(d.summary, f.query)
       \/ ilike(d.content, f.query)
       \/ ilike(d.keywords, f.query)
       \/ ilike(d.document_number, f.query)

InTitleMatches(d, f) ==
    /\ InSearchQuery(d, f)
    /\ ilike(d.title, f.query)

\* mutant: the summary tier does not exclude the title matches
InSummaryMatches_NoExclusion(d, f) ==
    /\ InSearchQuery(d, f)
    /\ ilike(d.summary, f.query)

InSummaryMatches(d, f) ==
    /\ InSearchQuery(d, f)
    /\ ilike(d.summary, f.query)
    /\ ~ilike(d.title, f.query)

\* mutant: the last tier takes every row of search_query that the first two
\* left
InContentMatches_Remainder(d, f) ==
    /\ InSearchQuery(d, f)
    /\ ~ilike(d.title, f.query)
    /\ ~ilike(d.summary, f.query)

InContentMatches(d, f) ==
    /\ InSearchQuery(d, f)
    /\ ilike(d.content, f.query)
    /\ ~ilike(d.title, f.query)
    /\ ~ilike(d.summary, f.query)

\* the rows of a query in the order the datastore yields them: `ord` is the
\* order of the table scan (the queries have no ORDER BY)
title_matches(tbl, ord, f) == SelectSeq(ord, LAMBDA i : InTitleMatches(tbl[i], f))
summary_matches(tbl, ord, f) == SelectSeq(ord, LAMBDA i : InSummaryMatches(tbl[i], f))
content_matches(tbl, ord, f) == SelectSeq(ord, LAMBDA i : InContentMatches(tbl[i], f))

\* .offset(skip).limit(limit).all()
OffsetLimit(s, skip, limit) == SubSeq(s, skip + 1, Min(Len(s), skip + limit))

PolicySearchResult(tbl, i, score) ==
    [ id |-> i,
      title |-> tbl[i].title,
      document_number |-> tbl[i].document_number,
      document_type |-> tbl[i].document_type,
      category |-> tbl[i].category,
      department |-> tbl[i].department,
      summary |-> tbl[i].summary,
      effective_date |-> tbl[i].effective_date,
      status |-> tbl[i].status,
      relevance_score |-> score ]

Scored(tbl, s, score) == [k \in 1..Len(s) |-> PolicySearchResult(tbl, s[k], score)]

\* mutant: the offset is applied to the summary tier too
SummaryPart_WithOffset(tbl, ord, f, taken) ==
    LET remaining_limit == f.limit - taken
    IN  IF remaining_limit > 0
        THEN Scored(tbl, OffsetLimit(summary_matches(tbl, ord, f), f.skip, remaining_limit),
                    SUMMARY_SCORE)
        ELSE <<>>

\* the summary matches, if there is room left
SummaryPart(tbl, ord, f, taken) ==
    LET remaining_limit == f.limit - taken
    IN  IF remaining_limit > 0
        THEN Scored(tbl, OffsetLimit(summary_matches(tbl, ord, f), 0, remaining_limit),
                    SUMMARY_SCORE)
        ELSE <<>>

\* mutant: the content tier is cut to the whole limit, not to the room left
ContentPart_WholeLimit(tbl, ord, f, taken) ==
    IF f.limit > 0
    THEN Scored(tbl, OffsetLimit(content_matches(tbl, ord, f), 0, f.limit), CONTENT_SCORE)
    ELSE <<>>

\* the content matches, if there is still room left
ContentPart(tbl, ord, f, taken) ==
    LET remaining_limit == f.limit - taken
    IN  IF remaining_limit > 0
        THEN Scored(tbl, OffsetLimit(content_matches(tbl, ord, f), 0, remaining_limit),
                    CONTENT_SCORE)
        ELSE <<>>

SearchResults(tbl, ord, f) ==
    LET r1 == Scored(tbl, OffsetLimit(title_matches(tbl, ord, f), f.skip, f.limit),
                     TITLE_SCORE)
        r2 == r1 \o SummaryPart(tbl, ord, f, Len(r1))
    IN  r2 \o ContentPart(tbl, ord, f, Len(r2))

\* mutant: only the title tier is counted
RECURSIVE SearchAppearances_TitleTierOnly(_, _, _, _, _)
SearchAppearances_TitleTierOnly(rows, results, k, c, t) ==
    IF k > Len(results) THEN rows
    ELSE SearchAppearances_TitleTierOnly(
             IF results[k].relevance_score = TITLE_SCORE
             THEN UpsertAnalytics(rows, results[k].id,
                                  DateOf(ClockAt(2 * k - 1, c, t)),
                                  ClockAt(2 * k, c, t),
                                  "search_appearances")
             ELSE rows,
             results, k + 1, c, t)

\* the loop over the results: result k reads the clock twice (today, then
\* the creation stamp)
RECURSIVE SearchAppearances(_, _, _, _, _)
SearchAppearances(rows, results, k, c, t) ==
    IF k > Len(results) THEN rows
    ELSE SearchAppearances(
             UpsertAnalytics(rows, results[k].id,
                             DateOf(ClockAt(2 * k - 1, c, t)),
                             ClockAt(2 * k, c, t),
                             "search_appearances"),
             results, k + 1, c, t)

\* the ledger of the events the handlers recorded, by document, by the date
\* the handler read, and by kind
Logged(log, document_id, today, kind) ==
    [log EXCEPT ![<<document_id, today, kind>>] = @ + 1]

RECURSIVE LoggedSearch(_, _, _, _, _)
LoggedSearch(log, results, k, c, t) ==
    IF k > Len(results) THEN log
    ELSE LoggedSearch(Logged(log, results[k].id, DateOf(ClockAt(2 * k - 1, c, t)),
                             "search_appearance"),
                      results, k + 1, c, t)

TotalEvents(rows) ==
    LET RECURSIVE Sum(_)
        Sum(k) == IF k = 0 THEN 0
                  ELSE Sum(k - 1) + rows[k].views + rows[k].downloads
                       + rows[k].comments_count + rows[k].citations_count
                       + rows[k].search_appearances
    IN  Sum(Len(rows))

\* f: the parameters of the handler; ord: the scan order of the datastore;
\* c: the clock readings before the clock ticks
Search(f, ord, c) ==
    /\ last = Idle
    /\ UNCHANGED <<sessions, other_tables>>
    /\ LET results == SearchResults(docs, ord, f)
           ticked == c < 2 * Len(results)
       IN  /\ ticked => now < MaxTime
           /\ analytics' = SearchAppearances(analytics, results, 1, c, now)
           /\ evlog' = LoggedSearch(evlog, results, 1, c, now)
           /\ now' = IF ticked THEN now + 1 ELSE now
           /\ last' = [op |-> "search", status_code |-> HTTP_200_OK,
                       args |-> f, body |-> results]
    /\ UNCHANGED <<docs, comments>>

-----------------------------------------------------------------------------
(* update_policy_document *)

UpdateFields ==
    {"title", "summary", "content", "keywords", "expiry_date", "status",
     "file_url", "is_public"}

\* mutant: the schema keeps the fields it does not declare
PolicyDocumentUpdate_AllowExtra(raw) == raw

\* the request body as PolicyDocumentUpdate parses it: the fields the schema
\* declares, the others ignored
PolicyDocumentUpdate(raw) == [f \in (DOMAIN raw) \cap UpdateFields |-> raw[f]]

\* mutant: a status the request leaves out goes back to the default
ApplyUpdate_StatusDefault(d, upd, t) ==
    [ [f \in DOMAIN d |-> IF f \in DOMAIN upd THEN upd[f]
                          ELSE IF f = "status" THEN "active" ELSE d[f]]
      EXCEPT !.updated_at = t ]

\* mutant: a repealed document keeps its status
ApplyUpdate_RepealedIsFinal(d, upd, t) ==
    LET set == [f \in DOMAIN d |->
                  IF f \in DOMAIN upd /\ ~(f = "status" /\ d.status = "repealed")
                  THEN upd[f] ELSE d[f]]
    IN  IF set = d THEN d ELSE [set EXCEPT !.updated_at = t]

\* for field, value in document_update.dict(exclude_unset=True).items()
ApplyUpdate(d, upd, t) ==
    LET set == [f \in DOMAIN d |-> IF f \in DOMAIN upd THEN upd[f] ELSE d[f]]
    IN  IF set = d THEN d ELSE [set EXCEPT !.updated_at = t]

\* mutant: every caller who passed the role check may edit
MayEdit_AnyOfficial(user, d) == TRUE

\* the permission check: the admin role, or the creator of the document
MayEdit(user, d) == ~(user.role # "admin" /\ d.created_by # user.id)

Update(user, document_id, raw) ==
    /\ last = Idle
    /\ UNCHANGED <<sessions, other_tables>>
    /\ LET upd == PolicyDocumentUpdate(raw) IN
       IF ~CanWrite(user)
       THEN /\ last' = [op |-> "update", status_code |-> HTTP_403_FORBIDDEN,
                        user |-> user, id |-> document_id, args |-> raw]
            /\ UNCHANGED docs
       ELSE IF document_id \notin Ids(docs)
       THEN /\ last' = [op |-> "update", status_code |-> HTTP_404_NOT_FOUND,
                        user |-> user, id |-> document_id, args |-> raw]
            /\ UNCHANGED docs
       ELSE IF ~MayEdit(user, docs[document_id])
       THEN /\ last' = [op |-> "update", status_code |-> HTTP_403_FORBIDDEN,
                        user |-> user, id |-> document_id, args |-> raw]
            /\ UNCHANGED docs
       ELSE /\ docs' = [docs EXCEPT ![document_id] = ApplyUpdate(@, upd, now)]
            /\ last' = [op |-> "update", status_code |-> HTTP_200_OK,
                        user |-> user, id |-> document_id, args |-> raw,
                        was |-> docs[document_id].status]
    /\ UNCHANGED <<analytics, comments, now, evlog>>

-----------------------------------------------------------------------------
(* get_policy_document *)

\* mutant: a document counts as viewed or not
IncrementViewCount_Once(view_count) == 1

\* document.view_count += 1
IncrementViewCount(view_count) == view_count + 1

\* mutant: every document passes the visibility check
IsPublic_Always(d) == TRUE

\* if not document.is_public: raise
IsPublic(d) == d.is_public = TRUE

\* the handler reads the clock twice: today, then the creation stamp; it
\* declares no dependency on the caller, whose identity the request carries
Read(user, document_id, c) ==
    /\ last = Idle
    /\ UNCHANGED <<sessions, other_tables>>
    /\ IF document_id \notin Ids(docs)
       THEN /\ last' = [op |-> "read", status_code |-> HTTP_404_NOT_FOUND,
                        user |-> user, id |-> document_id]
            /\ UNCHANGED <<docs, analytics, now, evlog>>
       ELSE IF ~IsPublic(docs[document_id])
       THEN /\ last' = [op |-> "read", status_code |-> HTTP_403_FORBIDDEN,
                        user |-> user, id |-> document_id]
            /\ UNCHANGED <<docs, analytics, now, evlog>>
       ELSE LET today == DateOf(ClockAt(1, c, now))
                stamp == ClockAt(2, c, now)
            IN  /\ c < 2 => now < MaxTime
                /\ docs' = [docs EXCEPT ![document_id].view_count = IncrementViewCount(@),
                                        ![document_id].updated_at = stamp]
                /\ analytics' = UpsertAnalytics(analytics, document_id, today, stamp, "views")
                /\ evlog' = Logged(evlog, document_id, today, "view")
                /\ now' = stamp
                /\ last' = [op |-> "read", status_code |-> HTTP_200_OK,
                            user |-> user, id |-> document_id,
                            body |-> docs'[document_id]]
    /\ UNCHANGED comments

-----------------------------------------------------------------------------
(* add_policy_comment *)

HTTP_500_INTERNAL_SERVER_ERROR == 500

\* PolicyComment(**comment.dict(), policy_document_id=document_id, ...):
\* comment.dict() has the key policy_document_id (PolicyCommentCreate
\* declares it), so the call is given the keyword twice and raises TypeError
CommentKwargsClash(comment) == "policy_document_id" \in DOMAIN comment

Comment(user, document_id, comment) ==
    /\ last = Idle
    /\ UNCHANGED <<sessions, other_tables>>
    /\ IF document_id \notin Ids(docs)
       THEN /\ last' = [op |-> "comment", status_code |-> HTTP_404_NOT_FOUND,
                        user |-> user, id |-> document_id]
            /\ UNCHANGED <<comments, analytics, evlog>>
       ELSE IF CommentKwargsClash(comment)
       THEN /\ last' = [op |-> "comment", status_code |-> HTTP_500_INTERNAL_SERVER_ERROR,
                        user |-> user, id |-> document_id]
            /\ UNCHANGED <<comments, analytics, evlog>>
       ELSE /\ comments' = Append(comments,
                                  [ policy_document_id |-> document_id,
                                    comment_text |-> comment.comment_text,
                                    comment_type |-> comment.comment_type,
                                    is_public |-> comment.is_public,
                                    commenter_id |-> user.id ])
            /\ analytics' = UpsertAnalytics(analytics, document_id, DateOf(now), now,
                                            "comments_count")
            /\ evlog' = Logged(evlog, document_id, DateOf(now), "comment")
            /\ last' = [op |-> "comment", status_code |-> HTTP_200_OK,
                        user |-> user, id |-> document_id, body |-> Len(comments) + 1]
    /\ UNCHANGED <<docs, now>>

-----------------------------------------------------------------------------
(* get_policy_documents *)

\* stable insertion of x into s, which is sorted by key, largest first
RECURSIVE InsertDesc(_, _, _)
InsertDesc(s, x, key) ==
    IF s = <<>> THEN <<x>>
    ELSE IF key[Head(s)] >= key[x]
         THEN <<Head(s)>> \o InsertDesc(Tail(s), x, key)
         ELSE <<x>> \o s

\* order_by(desc(key)): rows with equal keys stay in scan order
RECURSIVE OrderByDesc(_, _)
OrderByDesc(s, key) ==
    IF s = <<>> THEN <<>>
    ELSE InsertDesc(OrderByDesc(SubSeq(s, 1, Len(s) - 1), key), s[Len(s)], key)

\* is_public: Optional[bool] is the empty set (None) or the set of its value
InListing(d, f) ==
    /\ (Truthy(f.document_type) => d.document_type = f.document_type)
    /\ (Truthy(f.category) => d.category = f.category)
    /\ (Truthy(f.department) => d.department = f.department)
    /\ (Truthy(f.status) => d.status = f.status)
    /\ (f.is_public # {} => d.is_public \in f.is_public)

ListResults(tbl, ord, f) ==
    OffsetLimit(OrderByDesc(SelectSeq(ord, LAMBDA i : InListing(tbl[i], f)),
                            [i \in Ids(tbl) |-> tbl[i].created_at]),
                f.skip, f.limit)

List(f, ord) ==
    /\ last = Idle
    /\ UNCHANGED <<sessions, other_tables>>
    /\ last' = [op |-> "list", status_code |-> HTTP_200_OK, args |-> f,
                body |-> ListResults(docs, ord, f)]
    /\ UNCHANGED <<docs, analytics, comments, now, evlog>>

-----------------------------------------------------------------------------
(* get_policy_analytics *)

\* the rows of the document with start_date <= analytics_date <= end_date
analytics_data(rows, document_id, start_date, end_date) ==
    SelectSeq(rows, LAMBDA r : /\ r.policy_document_id = document_id
                               /\ r.analytics_date >= start_date
                               /\ r.analytics_date <= end_date)

RECURSIVE SumOf(_, _)
SumOf(rows, counter) ==
    IF rows = <<>> THEN 0 ELSE Head(rows)[counter] + SumOf(Tail(rows), counter)

\* (end_date - start_date).days or 1
days_in_period(start_date, end_date) ==
    LET days == (end_date - start_date) \div TicksPerDay
    IN  IF days = 0 THEN 1 ELSE days

\* engagement_score is the quotient score_num / score_den
PolicyAnalyticsReport(tbl, rows, document_id, start_date, end_date) ==
    LET data == analytics_data(rows, document_id, start_date, end_date)
        total_views == SumOf(data, "views")
        total_comments == SumOf(data, "comments_count")
        total_citations == SumOf(data, "citations_count")
    IN  [ policy_id |-> document_id,
          policy_title |-> tbl[document_id].title,
          period_start |-> start_date,
          period_end |-> end_date,
          total_views |-> total_views,
          total_downloads |-> SumOf(data, "downloads"),
          total_comments |-> total_comments,
          total_citations |-> total_citations,
          search_appearances |-> SumOf(data, "search_appearances"),
          score_num |-> total_views + total_comments * 5 + total_citations * 10,
          score_den |-> days_in_period(start_date, end_date) ]

Report(user, document_id, start_date, end_date) ==
    /\ last = Idle
    /\ UNCHANGED <<sessions, other_tables>>
    /\ last' =
         IF ~CanWrite(user)
         THEN [op |-> "report", status_code |-> HTTP_403_FORBIDDEN,
               user |-> user, id |-> document_id]
         ELSE IF document_id \notin Ids(docs)
         THEN [op |-> "report", status_code |-> HTTP_404_NOT_FOUND,
               user |-> user, id |-> document_id]
         ELSE [op |-> "report", status_code |-> HTTP_200_OK,
               user |-> user, id |-> document_id,
               body |-> PolicyAnalyticsReport(docs, analytics, document_id,
                                              start_date, end_date)]
    /\ UNCHANGED <<docs, analytics, comments, now, evlog>>

-----------------------------------------------------------------------------
(* get_policy_recommendations *)

InRecommendable(d, category) ==
    /\ d.status = "active"
    /\ d.is_public = TRUE
    /\ (Truthy(category) => d.category = category)

\* mutant: the quotient is not capped
confidence_Unclamped(view_count) == view_count

\* min(1.0, view_count / 100), in hundredths
confidence(view_count) == Min(100, view_count)

Recommendations(tbl, ord, category, limit) ==
    LET popular_policies ==
            OffsetLimit(OrderByDesc(SelectSeq(ord, LAMBDA i : InRecommendable(tbl[i], category)),
                                    [i \in Ids(tbl) |-> tbl[i].view_count]),
                        0, limit)
    IN  [ k \in 1..Len(popular_policies) |->
            [ policy_id |-> popular_policies[k],
              title |-> tbl[popular_policies[k]].title,
              confidence_score |-> confidence(tbl[popular_policies[k]].view_count),
              category |-> tbl[popular_policies[k]].category ] ]

Recommend(user, category, limit, ord) ==
    /\ last = Idle
    /\ UNCHANGED <<sessions, other_tables>>
    /\ last' = [op |-> "recommend", status_code |-> HTTP_200_OK, user |-> user,
                category |-> category, limit |-> limit,
                body |-> Recommendations(docs, ord, category, limit)]
    /\ UNCHANGED <<docs, analytics, comments, now, evlog>>

-----------------------------------------------------------------------------
(* the clock *)

\* time passes between two requests
Tick ==
    /\ last = Idle
    /\ UNCHANGED <<sessions, other_tables>>
    /\ now < MaxTime
    /\ now' = now + 1
    /\ UNCHANGED <<docs, analytics, comments, last, evlog>>

-----------------------------------------------------------------------------
(* the response leaves the handler *)

Respond ==
    /\ last # Idle
    /\ UNCHANGED <<sessions, other_tables>>
    /\ last' = Idle
    /\ UNCHANGED <<docs, analytics, comments, now, evlog>>

-----------------------------------------------------------------------------
(* Inputs *)

\* the scan orders of a table: by primary key, forward or backward
ScanOrders(tbl) ==
    { [k \in Ids(tbl) |-> k], [k \in Ids(tbl) |-> Len(tbl) + 1 - k] }

\* a handler during which the clock does not tick
NoTick == 2 * MaxDocs + 2

Digit(n) == <<CASE n = 1 -> "1" [] n = 2 -> "2" [] n = 3 -> "3" [] OTHER -> "4">>

Payload(title, summary, content, keywords, number, category) ==
    [ title |-> title, document_number |-> number, document_type |-> "law",
      category |-> category, department |-> "water", summary |-> summary,
      content |-> content, keywords |-> keywords, effective_date |-> 0,
      expiry_date |-> NullTime, version |-> "1.0", language |-> "en",
      file_url |-> None, is_public |-> TRUE ]

SearchPayloads ==
    { Payload(<<"W", "a">>, <<"a", "b">>, <<"b">>, NullText, Digit(1), "environment"),
      Payload(<<"c">>, <<"a", "b">>, <<"b">>, <<"k">>, Digit(2), "environment"),
      Payload(<<"c">>, <<"b">>, <<"W", "a">>, NullText, Digit(3), "health") }

Queries == { <<"A">>, <<"b">>, <<"_">> }

SearchFilters ==
    { [document_type |-> Omitted, category |-> Omitted, department |-> Omitted, status |-> Omitted],
      [document_type |-> "", category |-> Omitted, department |-> Omitted, status |-> "draft"],
      [document_type |-> "law", category |-> "environment", department |-> "water", status |-> ""] }

SearchArgs(query, skip, limit, g) ==
    [ query |-> query, skip |-> skip, limit |-> limit,
      document_type |-> FilterParam(g.document_type),
      category |-> FilterParam(g.category),
      department |-> FilterParam(g.department),
      status |-> StatusParam(g.status),
      given |-> g ]

SearchUpdates ==
    { [status |-> "draft"], [is_public |-> FALSE, status |-> "draft"] }

Admin == CHOOSE u \in Users : u.role = "admin"

-----------------------------------------------------------------------------
(* Specification of the search engine over a changing document table *)

EmptyLog ==
    [k \in (1..(MaxDocs + 1)) \X (0..(MaxDay + 1)) \X
           {"view", "comment", "search_appearance"} |-> 0]

Init ==
    /\ docs = <<>>
    /\ analytics = <<>>
    /\ comments = <<>>
    /\ now = 0
    /\ last = Idle
    /\ sessions = NoSessions
    /\ citations = <<>>
    /\ budgets = <<>>
    /\ transactions = <<>>
    /\ chat_sessions = <<>>
    /\ chat_messages = <<>>
    /\ evlog = EmptyLog

SearchNext ==
    \/ \E p \in SearchPayloads : Create(Admin, p)
    \/ \E u \in SearchUpdates : Update(Admin, 1, u)
    \/ \E q \in Queries, s \in 0..MaxSkip, l \in 0..MaxLimit, g \in SearchFilters,
          ord \in ScanOrders(docs) :
            TotalEvents(analytics) < MaxSearchEvents /\ Search(SearchArgs(q, s, l, g), ord, NoTick)
    \/ Respond

SearchSpec == Init /\ [][SearchNext]_vars

-----------------------------------------------------------------------------
(* Specification of the analytics accumulator: the clock runs over a       *)
(* document table that create_policy_document has filled                   *)

\* midnight of a day
DayStart(day) == day * TicksPerDay

Official == CHOOSE u \in Users : u.id = 2
\* another government official, who created nothing
Colleague == CHOOSE u \in Users : u.id = 3
Citizen == CHOOSE u \in Users : u.role = "citizen"

\* document k of the table: its title matches the query "A", the summary of
\* the others does
AnalyticsPayload(k, is_public) ==
    [ Payload(IF k = 1 THEN <<"W", "a">> ELSE <<"c">>, <<"a", "b">>, <<"b">>,
              NullText, Digit(k), "environment")
      EXCEPT !.is_public = is_public ]

\* the table after MaxDocs calls of create, the last one public or not
CreatedTable(last_public) ==
    [ k \in 1..MaxDocs |->
        NewDocument(AnalyticsPayload(k, k < MaxDocs \/ last_public), Official.id, 0) ]

AnalyticsInit ==
    /\ docs = CreatedTable(TRUE)
    /\ analytics = <<>>
    /\ comments = <<>>
    /\ now = 0
    /\ last = Idle
    /\ sessions = NoSessions
    /\ citations = <<>>
    /\ budgets = <<>>
    /\ transactions = <<>>
    /\ chat_sessions = <<>>
    /\ chat_messages = <<>>
    /\ evlog = EmptyLog

NoFilters ==
    [document_type |-> Omitted, category |-> Omitted, department |-> Omitted,
     status |-> Omitted]

AnalyticsSearches ==
    { SearchArgs(<<"A">>, 0, MaxDocs, NoFilters),
      SearchArgs(<<"A">>, 0, 1, NoFilters),
      SearchArgs(<<"z">>, 0, MaxDocs, NoFilters) }

SomeComments ==
    { [comment_text |-> <<"a">>, comment_type |-> "feedback", is_public |-> TRUE,
       policy_document_id |-> 1] }

ReportRanges ==
    { <<DayStart(d), DayStart(d)>> : d \in 0..MaxDay } \cup { <<0, MaxTime>>, <<MaxTime, 0>> }

ReportCalls ==
    { <<Official, i, r[1], r[2]>> : i \in {1, MaxDocs}, r \in ReportRanges }
        \cup { <<Citizen, 1, 0, MaxTime>>, <<Official, MaxDocs + 1, 0, MaxTime>> }

AnalyticsNext ==
    \/ \E i \in {1, MaxDocs, MaxDocs + 1}, c \in {1, NoTick} :
          TotalEvents(analytics) < MaxEvents /\ Read(Citizen, i, c)
    \/ \E f \in AnalyticsSearches, ord \in ScanOrders(docs), c \in {1, 2, NoTick} :
          TotalEvents(analytics) < MaxEvents /\ Search(f, ord, c)
    \/ \E i \in {1, MaxDocs + 1}, cm \in SomeComments : Comment(Citizen, i, cm)
    \/ \E q \in ReportCalls : Report(q[1], q[2], q[3], q[4])
    \/ Tick
    \/ Respond

AnalyticsSpec == AnalyticsInit /\ [][AnalyticsNext]_vars

-----------------------------------------------------------------------------
(* Specification of the module: every operation of the router, over a      *)
(* table that starts empty                                                 *)

ModulePayloads ==
    { Payload(<<"W", "a">>, <<"a", "b">>, <<"b">>, NullText, Digit(1), "environment"),
      [ Payload(<<"c">>, <<"a">>, <<"b">>, NullText, Digit(2), "health")
        EXCEPT !.is_public = FALSE ] }

\* request bodies of update: the second and third name a field the schema
\* does not declare
ModuleUpdates ==
    { [status |-> "draft"],
      [is_public |-> TRUE, view_count |-> 0],
      [title |-> <<"a">>, view_count |-> MaxEvents + 1, document_number |-> Digit(1)] }

ModuleSearches ==
    { SearchArgs(<<"A">>, 0, MaxLimit, NoFilters) }

ModuleListings ==
    { [document_type |-> None, category |-> None, department |-> None,
       status |-> None, is_public |-> {}, skip |-> 0, limit |-> MaxLimit],
      [document_type |-> None, category |-> "health", department |-> None,
       status |-> "active", is_public |-> {TRUE}, skip |-> 0, limit |-> MaxLimit] }

ModuleNext ==
    \/ \E u \in {Official, Citizen}, p \in ModulePayloads : Create(u, p)
    \/ \E f \in ModuleSearches, ord \in ScanOrders(docs) :
          TotalEvents(analytics) < MaxEvents /\ Search(f, ord, NoTick)
    \/ \E f \in ModuleListings, ord \in ScanOrders(docs) : List(f, ord)
    \/ \E u \in {Admin, Citizen}, i \in 1..(MaxDocs + 1) :
          TotalEvents(analytics) < MaxEvents /\ Read(u, i, NoTick)
    \/ \E u \in {Admin, Official, Colleague, Citizen}, i \in 1..(MaxDocs + 1),
          raw \in ModuleUpdates :
          Update(u, i, raw)
    \/ \E i \in {1, MaxDocs + 1}, cm \in SomeComments : Comment(Citizen, i, cm)
    \/ \E i \in {1, MaxDocs + 1} : Report(Official, i, 0, MaxTime)
    \/ \E category \in {None, "health"}, ord \in ScanOrders(docs) :
          Recommend(Citizen, category, MaxLimit, ord)
    \/ Respond

ModuleSpec == Init /\ [][ModuleNext]_vars

-----------------------------------------------------------------------------
(* Properties of the search engine, checked under SearchSpec *)

\* case folding of the alphabet, as the properties read it
Fold(c) == IF c = "W" THEN "w" ELSE IF c = "A" THEN "a" ELSE c

\* q occurs in text, ignoring case
ContainsCI(text, q) ==
    \E i \in 0..(Len(text) - Len(q)) : \A j \in 1..Len(q) : Fold(text[i + j]) = Fold(q[j])

SearchPending == last.op = "search"

\* the ids of the entries of a result that carry a score, in result order
IdsWithScore(body, score) ==
    LET hits == SelectSeq(body, LAMBDA r : r.relevance_score = score)
    IN  [k \in 1..Len(hits) |-> hits[k].id]

ReturnedWith(body, i, score) ==
    \E k \in 1..Len(body) : body[k].id = i /\ body[k].relevance_score = score

\* a filter the caller sent with a value
Supplied(x) == x # Omitted /\ x # ""

\* the categorical filters the caller supplied equal the attributes of d
CategoricalFiltersEqual(g, d) ==
    /\ (Supplied(g.document_type) => g.document_type = d.document_type)
    /\ (Supplied(g.category) => g.category = d.category)
    /\ (Supplied(g.department) => g.department = d.department)

TitleSearchCovers(f) ==
    /\ f.skip = 0
    /\ f.limit >= Cardinality({ i \in Ids(docs) : InTitleMatches(docs[i], f) })

\* C1 as claimed: a public document whose title contains the query is
\* returned at score 1.0 by a search with offset 0 and a limit that covers
\* the title matches, when every filter the caller sent equals its
\* attribute; with no status filter sent, its status does not matter.
C1_AsClaimed ==
    SearchPending =>
        \A i \in Ids(docs) :
            ( /\ TitleSearchCovers(last.args)
              /\ docs[i].is_public = TRUE
              /\ ContainsCI(docs[i].title, last.args.query)
              /\ CategoricalFiltersEqual(last.args.given, docs[i])
              /\ (Supplied(last.args.given.status) =>
                      last.args.given.status = docs[i].status) )
            => ReturnedWith(last.body, i, TITLE_SCORE)

\* C1 amended: the same, but when the request leaves the status filter out
\* the default filter "active" applies, so the document must have status
\* "active"; its status does not matter when the filter is sent empty.
C1_TitleSearchFindsDocument ==
    SearchPending =>
        \A i \in Ids(docs) :
            ( /\ TitleSearchCovers(last.args)
              /\ docs[i].is_public = TRUE
              /\ ContainsCI(docs[i].title, last.args.query)
              /\ CategoricalFiltersEqual(last.args.given, docs[i])
              /\ (Supplied(last.args.given.status) =>
                      last.args.given.status = docs[i].status)
              /\ (last.args.given.status = Omitted => docs[i].status = "active") )
            => ReturnedWith(last.body, i, TITLE_SCORE)

\* a search with a category filter and an empty status filter returns a
\* draft whose title contains the query in another case
C1_Witness ==
    /\ SearchPending
    /\ TitleSearchCovers(last.args)
    /\ last.args.given.status = ""
    /\ last.args.given.category = "environment"
    /\ \E i \in Ids(docs) :
          /\ docs[i].status = "draft"
          /\ ContainsCI(docs[i].title, last.args.query)
          /\ docs[i].title # last.args.query
          /\ ReturnedWith(last.body, i, TITLE_SCORE)

\* C2: no document id occurs twice in a search result, and every entry
\* carries the score of the highest tier its document matches: 1.0 for the
\* title, else 0.7 for the summary, else 0.5 for the content.
C2_TierExclusive ==
    SearchPending =>
        LET body == last.body
            q == last.args.query
        IN  /\ \A j, k \in 1..Len(body) : j # k => body[j].id # body[k].id
            /\ \A k \in 1..Len(body) :
                  LET d == docs[body[k].id]
                  IN  /\ ilike(d.title, q) \/ ilike(d.summary, q) \/ ilike(d.content, q)
                      /\ body[k].relevance_score =
                            (IF ilike(d.title, q) THEN TITLE_SCORE
                             ELSE IF ilike(d.summary, q) THEN SUMMARY_SCORE
                             ELSE CONTENT_SCORE)

\* a document that matches in title and summary is returned once, in the
\* title tier, beside an entry of a lower tier
C2_Witness ==
    /\ SearchPending
    /\ \E k \in 1..Len(last.body) :
          /\ ilike(docs[last.body[k].id].title, last.args.query)
          /\ ilike(docs[last.body[k].id].summary, last.args.query)
          /\ last.body[k].relevance_score = TITLE_SCORE
    /\ \E k \in 1..Len(last.body) : last.body[k].relevance_score < TITLE_SCORE

\* C3: every document a search returns is public and equals every filter
\* the caller supplied, whatever creates and updates came before.
C3_PublicAndFiltered ==
    SearchPending =>
        \A k \in 1..Len(last.body) :
            LET d == docs[last.body[k].id]
                g == last.args.given
            IN  /\ d.is_public = TRUE
                /\ (Supplied(g.document_type) => d.document_type = g.document_type)
                /\ (Supplied(g.category) => d.category = g.category)
                /\ (Supplied(g.department) => d.department = g.department)
                /\ (Supplied(g.status) => d.status = g.status)

\* a search returns a document while another one, which an update made
\* private, matches the query and the filters and is left out
C3_Witness ==
    /\ SearchPending
    /\ last.body # <<>>
    /\ \E i \in Ids(docs) :
          /\ docs[i].is_public = FALSE
          /\ docs[i].updated_at # NullTime
          /\ InBase_NoVisibility(docs[i], last.args)
          /\ ilike(docs[i].title, last.args.query)
          /\ \A k \in 1..Len(last.body) : last.body[k].id # i

IsPrefix(s, t) == Len(s) <= Len(t) /\ s = SubSeq(t, 1, Len(s))

\* C4: a result lists its title tier, then its summary tier, then its
\* content tier; the summary tier holds at most limit - count(title tier)
\* entries and the content tier at most the slots still left, so the result
\* holds at most `limit` entries and a lower tier appears only when the
\* higher tiers left room.
C4_TiersInOrderWithinLimit ==
    SearchPending =>
        LET body == last.body
            limit == last.args.limit
            nA == Len(IdsWithScore(body, TITLE_SCORE))
            nB == Len(IdsWithScore(body, SUMMARY_SCORE))
            nC == Len(IdsWithScore(body, CONTENT_SCORE))
        IN  /\ \A j, k \in 1..Len(body) :
                  j < k => body[j].relevance_score >= body[k].relevance_score
            /\ nA + nB + nC = Len(body)
            /\ nB <= Max(limit - nA, 0)
            /\ nC <= Max(limit - nA - nB, 0)
            /\ Len(body) <= limit
            /\ (nB > 0 => nA < limit)
            /\ (nC > 0 => nA + nB < limit)

\* a result that the summary tier fills up to the limit while a content
\* match is left out
C4_Witness ==
    /\ SearchPending
    /\ Len(last.body) = last.args.limit
    /\ IdsWithScore(last.body, SUMMARY_SCORE) # <<>>
    /\ IdsWithScore(last.body, CONTENT_SCORE) = <<>>
    /\ \E i \in Ids(docs) : InContentMatches(docs[i], last.args)

\* C5: the offset is applied to the title tier only.  For every offset and
\* scan order the summary and content parts of the result are taken from
\* the start of their tiers, and a document beyond the first `limit` entries
\* of its tier is returned by no offset.
C5_OffsetOnlyOnTitleTier ==
    SearchPending =>
        /\ \E ord \in ScanOrders(docs) :
              /\ last.body = SearchResults(docs, ord, last.args)
              /\ IsPrefix(IdsWithScore(last.body, SUMMARY_SCORE),
                          summary_matches(docs, ord, last.args))
              /\ IsPrefix(IdsWithScore(last.body, CONTENT_SCORE),
                          content_matches(docs, ord, last.args))
        /\ \A ord \in ScanOrders(docs), o \in 0..(MaxSkip + 1) :
              LET res == SearchResults(docs, ord, [last.args EXCEPT !.skip = o])
                  allB == summary_matches(docs, ord, last.args)
                  allC == content_matches(docs, ord, last.args)
              IN  /\ IsPrefix(IdsWithScore(res, SUMMARY_SCORE), allB)
                  /\ IsPrefix(IdsWithScore(res, CONTENT_SCORE), allC)
                  /\ \A p \in (last.args.limit + 1)..Len(allB) :
                        \A k \in 1..Len(res) : res[k].id # allB[p]
                  /\ \A p \in (last.args.limit + 1)..Len(allC) :
                        \A k \in 1..Len(res) : res[k].id # allC[p]

\* a search with offset 1 returns a summary match that the same search with
\* offset 0 returns too, and leaves out a summary match beyond the limit
C5_Witness ==
    /\ SearchPending
    /\ last.args.skip = 1
    /\ \E ord \in ScanOrders(docs) :
          LET first == SearchResults(docs, ord, [last.args EXCEPT !.skip = 0])
          IN  /\ last.body = SearchResults(docs, ord, last.args)
              /\ \E j \in 1..Len(first), k \in 1..Len(last.body) :
                    /\ first[j].id = last.body[k].id
                    /\ last.body[k].relevance_score = SUMMARY_SCORE
              /\ Len(summary_matches(docs, ord, last.args)) > last.args.limit

-----------------------------------------------------------------------------
(* Properties of the analytics accumulator, checked under AnalyticsSpec *)

Days == 0..(MaxDay + 1)

\* the rows of a document whose analytics_date falls on a day
RowsOn(rows, d, day) ==
    SelectSeq(rows, LAMBDA r : r.policy_document_id = d /\ DateOf(r.analytics_date) = day)

Appearances(rows, d, day) == SumOf(RowsOn(rows, d, day), "search_appearances")

Returned(body, d) == \E k \in 1..Len(body) : body[k].id = d

\* a handler has run in this step and left the response of operation `op`
Handled(op) == last = Idle /\ last'.op = op

\* C6: a search adds exactly 1 to today's search_appearances of every
\* document it returns, whatever the tier, and leaves the search_appearances
\* of every other document as they were; a search that matches nothing
\* answers with an empty list and leaves the analytics table as it was.
C6_SearchCountsAppearances ==
    [][ Handled("search") =>
          /\ last'.status_code = HTTP_200_OK
          /\ \A d \in Ids(docs) :
                IF Returned(last'.body, d)
                THEN \E today \in {DateOf(now), DateOf(now')} :
                        /\ Appearances(analytics', d, today)
                              = Appearances(analytics, d, today) + 1
                        /\ \A day \in Days \ {today} :
                              Appearances(analytics', d, day) = Appearances(analytics, d, day)
                ELSE \A day \in Days :
                        Appearances(analytics', d, day) = Appearances(analytics, d, day)
          /\ (last'.body = <<>> => analytics' = analytics) ]_vars

\* a search has returned a title match and a summary match: the row the
\* first one had from a read now counts one appearance, and a row was made
\* for the second
C6_Witness ==
    /\ last.op = "search"
    /\ IdsWithScore(last.body, TITLE_SCORE) # <<>>
    /\ IdsWithScore(last.body, SUMMARY_SCORE) # <<>>
    /\ \E i, j \in 1..Len(analytics) :
          /\ analytics[i].views = 1 /\ analytics[i].search_appearances = 1
          /\ Returned(last.body, analytics[i].policy_document_id)
          /\ analytics[j].views = 0 /\ analytics[j].search_appearances = 1
          /\ Returned(last.body, analytics[j].policy_document_id)

\* the events of a document in the ledger, but for the views of one day
OtherEvents(d, day) ==
    { k \in DOMAIN evlog : k[1] = d /\ k # <<d, day, "view">> /\ evlog[k] > 0 }

\* C7 as claimed: after N successful reads of a document on one calendar day
\* and no other event, the report of that document from that day to that day
\* has total_views = N.
C7_AsClaimed ==
    ( /\ last.op = "report"
      /\ last.status_code = HTTP_200_OK
      /\ last.body.period_start = last.body.period_end
      /\ last.body.period_start = DayStart(DateOf(last.body.period_start))
      /\ OtherEvents(last.id, DateOf(last.body.period_start)) = {} )
    => last.body.total_views = evlog[<<last.id, DateOf(last.body.period_start), "view">>]

\* C8: there is at most one analytics row for a document and a calendar day.
\* An event of a day for which the document has no row adds the row, an
\* event of a day for which it has one counts in that row, and no event
\* changes the row of another day.
C8_DayBucketing ==
    [][ (Handled("read") \/ Handled("search") \/ Handled("comment")) =>
          /\ \A d \in Ids(docs), day \in Days : Len(RowsOn(analytics', d, day)) <= 1
          /\ Len(analytics') >= Len(analytics)
          /\ \A i \in 1..Len(analytics) :
                /\ analytics'[i].policy_document_id = analytics[i].policy_document_id
                /\ analytics'[i].analytics_date = analytics[i].analytics_date
                /\ analytics'[i] # analytics[i] =>
                      /\ DateOf(analytics[i].analytics_date) \in {DateOf(now), DateOf(now')}
                      /\ \A j \in (Len(analytics) + 1)..Len(analytics') :
                            analytics'[j].policy_document_id # analytics[i].policy_document_id
          /\ \A j \in (Len(analytics) + 1)..Len(analytics') :
                /\ DateOf(analytics'[j].analytics_date) \in {DateOf(now), DateOf(now')}
                /\ RowsOn(analytics, analytics'[j].policy_document_id,
                          DateOf(analytics'[j].analytics_date)) = <<>> ]_vars

\* a document has the row of one day, which counts two events, and a row of
\* another day
C8_Witness ==
    \E i, j \in 1..Len(analytics) :
        /\ analytics[i].policy_document_id = analytics[j].policy_document_id
        /\ DateOf(analytics[i].analytics_date) # DateOf(analytics[j].analytics_date)
        /\ analytics[i].views + analytics[i].search_appearances >= 2

\* the successful reads of a document in the ledger
RECURSIVE ViewsLogged(_, _)
ViewsLogged(d, day) ==
    IF day < 0 THEN 0 ELSE evlog[<<d, day, "view">>] + ViewsLogged(d, day - 1)

\* C9: the view_count of a document is the number of successful reads of
\* it: N reads add exactly N, with no deduplication.
C9_ViewCountCountsReads ==
    \A d \in Ids(docs) : docs[d].view_count = ViewsLogged(d, MaxDay + 1)

\* a document was read twice on the same day
C9_Witness ==
    \E d \in Ids(docs), day \in Days :
        /\ evlog[<<d, day, "view">>] = 2
        /\ docs[d].view_count = 2
        /\ last.op = "read" /\ last.id = d /\ last.status_code = HTTP_200_OK

-----------------------------------------------------------------------------
(* Properties of the view counter, checked under ModuleSpec *)

\* C10: no operation of the module lowers the view_count of a document, a
\* document enters the table with its view_count at 0, and the only step
\* that changes the view_count of a document is a successful read of that
\* document: an update cannot set it.
C10_ViewCountOnlyGrowsByRead ==
    [][ /\ \A d \in Ids(docs) :
              /\ d \in Ids(docs')
              /\ docs'[d].view_count >= docs[d].view_count
              /\ docs'[d].view_count # docs[d].view_count =>
                    /\ last'.op = "read"
                    /\ last'.status_code = HTTP_200_OK
                    /\ last'.id = d
        /\ \A d \in Ids(docs') \ Ids(docs) : docs'[d].view_count = 0 ]_vars

\* an update whose body names view_count has gone through on a document
\* that was read before, and the counter is what the reads left
C10_Witness ==
    /\ last.op = "update"
    /\ last.status_code = HTTP_200_OK
    /\ "view_count" \in DOMAIN last.args
    /\ docs[last.id].view_count >= 2
    /\ docs[last.id].view_count # last.args.view_count

-----------------------------------------------------------------------------
(* Properties of the document store, checked under ModuleSpec *)

Elevated(user) == user.role \in {"admin", "government_official"}

\* C11 as claimed: a read of an id that no document has fails with NotFound;
\* a read of a document that is not public fails with Forbidden for a caller
\* without an elevated role and succeeds for an admin or a government
\* official.
C11_AsClaimed ==
    last.op = "read" =>
        IF last.id \notin Ids(docs) THEN last.status_code = HTTP_404_NOT_FOUND
        ELSE IF docs[last.id].is_public = FALSE
        THEN last.status_code =
                (IF Elevated(last.user) THEN HTTP_200_OK ELSE HTTP_403_FORBIDDEN)
        ELSE last.status_code = HTTP_200_OK

\* the documents that carry a document number
WithNumber(tbl, number) == { d \in Ids(tbl) : tbl[d].document_number = number }

\* C12: no two stored documents have the same document_number, whatever
\* creates and updates came before: a create whose document_number a stored
\* document has stores nothing, and is answered with the duplicate error
\* when the caller may create; no step changes the document_number of a
\* stored document.
C12_DocumentNumberUnique ==
    [][ /\ \A i, j \in Ids(docs') :
              i # j => docs'[i].document_number # docs'[j].document_number
        /\ \A d \in Ids(docs) :
              d \in Ids(docs') /\ docs'[d].document_number = docs[d].document_number
        /\ (Handled("create") /\ WithNumber(docs, last'.args.document_number) # {}) =>
              /\ docs' = docs
              /\ Elevated(last'.user) => last'.status_code = HTTP_400_BAD_REQUEST ]_vars

\* a create with the number of a stored document was rejected, after an
\* update whose body named document_number left that number as it was
C12_Witness ==
    /\ last.op = "create"
    /\ last.status_code = HTTP_400_BAD_REQUEST
    /\ \E d \in WithNumber(docs, last.args.document_number) :
          docs[d].title = <<"a">> /\ docs[d].document_number # Digit(1)

\* C13: a create by an admin or a government official that goes through
\* appends one document with the fields of the request, created_by the id of
\* the caller, status "active" and view_count 0; it goes through unless the
\* number is taken; a create by any other role is answered with Forbidden
\* and stores nothing, also when the number is taken.
C13_CreateByRole ==
    [][ Handled("create") =>
          IF Elevated(last'.user)
          THEN IF WithNumber(docs, last'.args.document_number) # {}
               THEN last'.status_code = HTTP_400_BAD_REQUEST /\ docs' = docs
               ELSE /\ last'.status_code = HTTP_200_OK
                    /\ Len(docs') = Len(docs) + 1
                    /\ SubSeq(docs', 1, Len(docs)) = docs
                    /\ LET d == docs'[Len(docs')]
                       IN  /\ d.created_by = last'.user.id
                           /\ d.status = "active"
                           /\ d.view_count = 0
                           /\ \A f \in DOMAIN last'.args : d[f] = last'.args[f]
          ELSE last'.status_code = HTTP_403_FORBIDDEN /\ docs' = docs ]_vars

\* a citizen asked to create a document whose number a document created by
\* a government official has
C13_Witness ==
    /\ last.op = "create"
    /\ last.status_code = HTTP_403_FORBIDDEN
    /\ last.user.role = "citizen"
    /\ \E d \in WithNumber(docs, last.args.document_number) :
          docs[d].created_by = Official.id /\ docs[d].status = "active"

\* the document an update is to leave: the supplied fields of the schema at
\* their supplied values, every other attribute as it was
Supplied_Applied(d, args) ==
    [f \in DOMAIN d |-> IF f \in (DOMAIN args) \cap UpdateFields THEN args[f] ELSE d[f]]

\* every table but the document of the update is as it was
UpdateFrame(id) ==
    /\ analytics' = analytics
    /\ comments' = comments
    /\ Len(docs') = Len(docs)
    /\ \A d \in Ids(docs) \ {id} : docs'[d] = docs[d]

\* C14 as claimed: a successful update sets exactly the supplied fields and
\* leaves every other attribute of the document, every other document and the
\* analytics rows as they were; a failed update changes nothing.
C14_AsClaimed ==
    [][ Handled("update") =>
          IF last'.status_code = HTTP_200_OK
          THEN /\ UpdateFrame(last'.id)
               /\ docs'[last'.id] = Supplied_Applied(docs[last'.id], last'.args)
          ELSE /\ docs' = docs /\ analytics' = analytics /\ comments' = comments ]_vars

\* C14: a successful update sets exactly the supplied fields and leaves every
\* other attribute of the document as it was, but for updated_at, which takes
\* the time of the update when a supplied value differs from the stored one;
\* every other document and the analytics rows are as they were; a failed
\* update changes nothing.
C14_UpdateSetsSuppliedFields ==
    [][ Handled("update") =>
          IF last'.status_code = HTTP_200_OK
          THEN LET old == docs[last'.id]
                   new == Supplied_Applied(old, last'.args)
               IN  /\ UpdateFrame(last'.id)
                   /\ \A f \in (DOMAIN old) \ {"updated_at"} : docs'[last'.id][f] = new[f]
                   /\ docs'[last'.id].updated_at =
                         (IF new = old THEN old.updated_at ELSE now)
          ELSE /\ docs' = docs /\ analytics' = analytics /\ comments' = comments ]_vars

\* an update of the status went through on a document that had been read:
\* the title and the view count are what they were, updated_at is set
C14_Witness ==
    /\ last.op = "update"
    /\ last.status_code = HTTP_200_OK
    /\ DOMAIN last.args = {"status"}
    /\ docs[last.id].status = "draft"
    /\ docs[last.id].title = <<"W", "a">>
    /\ docs[last.id].view_count = 1
    /\ docs[last.id].updated_at # NullTime
    /\ analytics # <<>>

\* C15 as claimed: an update goes through only for the creator of the
\* document or an admin, any other caller gets Forbidden, and an id that no
\* document has gets NotFound whatever the role of the caller.
C15_AsClaimed ==
    last.op = "update" =>
        IF last.id \notin Ids(docs) THEN last.status_code = HTTP_404_NOT_FOUND
        ELSE last.status_code =
                (IF last.user.role = "admin" \/ docs[last.id].created_by = last.user.id
                 THEN HTTP_200_OK ELSE HTTP_403_FORBIDDEN)

\* C15: an update goes through only for the creator of the document or an
\* admin, any other caller gets Forbidden; an id that no document has gets
\* NotFound for an admin or a government official, and Forbidden for every
\* other role, whose check comes before the lookup.
C15_UpdateAuthorization ==
    last.op = "update" =>
        IF ~Elevated(last.user) THEN last.status_code = HTTP_403_FORBIDDEN
        ELSE IF last.id \notin Ids(docs) THEN last.status_code = HTTP_404_NOT_FOUND
        ELSE last.status_code =
                (IF last.user.role = "admin" \/ docs[last.id].created_by = last.user.id
                 THEN HTTP_200_OK ELSE HTTP_403_FORBIDDEN)

\* a citizen asked to update an id that no document has, and was forbidden
C15_Witness ==
    /\ last.op = "update"
    /\ last.user.role = "citizen"
    /\ docs # <<>>
    /\ last.id \notin Ids(docs)
    /\ last.status_code = HTTP_403_FORBIDDEN

-----------------------------------------------------------------------------
(* Properties of the analytics report, checked under AnalyticsSpec *)

ReportPending == last.op = "report" /\ last.status_code = HTTP_200_OK

\* C16 as claimed: the engagement score of a report is
\* (total_views + 5 * total_comments + 10 * total_citations) divided by
\* max(days_in_period, 1): the divisor is at least 1 for every start and
\* end, the end before the start included, and the score is not negative.
C16_AsClaimed ==
    ReportPending =>
        LET body == last.body
            days == (body.period_end - body.period_start) \div TicksPerDay
        IN  /\ body.score_num = body.total_views + 5 * body.total_comments
                                    + 10 * body.total_citations
            /\ body.score_den = Max(days, 1)
            /\ body.score_den >= 1
            /\ body.score_num >= 0

\* the rows of a document whose calendar day lies between the days of start
\* and end
RowsInDays(rows, d, start_date, end_date) ==
    SelectSeq(rows, LAMBDA r : /\ r.policy_document_id = d
                               /\ DateOf(r.analytics_date) >= DateOf(start_date)
                               /\ DateOf(r.analytics_date) <= DateOf(end_date))

\* C17 as claimed: a report sums every counter over the rows of the document
\* whose calendar day lies in [start, end], whatever the time of day at which
\* a row was made, and every counter is zero when no row is in range.
C17_AsClaimed ==
    ReportPending =>
        LET body == last.body
            rows == RowsInDays(analytics, last.id, body.period_start, body.period_end)
        IN  /\ body.total_views = SumOf(rows, "views")
            /\ body.total_downloads = SumOf(rows, "downloads")
            /\ body.total_comments = SumOf(rows, "comments_count")
            /\ body.total_citations = SumOf(rows, "citations_count")
            /\ body.search_appearances = SumOf(rows, "search_appearances")

-----------------------------------------------------------------------------
(* Properties of the error outcomes, checked under ModuleSpec *)

\* the operations that name a document by its id
ById == {"read", "update", "comment", "report"}

\* the operations that check the role of the caller
ByRole == {"create", "update", "report"}

\* the request r, arriving at the tables as they are, names a document
\* number that is taken
ConflictCase(r) ==
    r.op = "create" /\ WithNumber(docs, r.args.document_number) # {}

\* the request names an id that no document has
NotFoundCase(r) ==
    r.op \in ById /\ r.id \notin Ids(docs)

\* the request fails a role, ownership or visibility check
ForbiddenCase(r) ==
    \/ r.op \in ByRole /\ ~Elevated(r.user)
    \/ /\ r.op = "update"
       /\ r.id \in Ids(docs)
       /\ r.user.role # "admin"
       /\ docs[r.id].created_by # r.user.id
    \/ r.op = "read" /\ r.id \in Ids(docs) /\ docs[r.id].is_public = FALSE

\* C18: a response carries one outcome; the duplicate error, NotFound and
\* Forbidden are three different outcomes, each of them is given only to a
\* request whose case it names, and a request in one of these cases never
\* gets the outcome of a success.
C18_ErrorKindsDistinct ==
    [][ (last = Idle /\ last' # Idle) =>
          LET r == last'
          IN  /\ Cardinality({HTTP_400_BAD_REQUEST, HTTP_404_NOT_FOUND,
                              HTTP_403_FORBIDDEN, HTTP_200_OK}) = 4
              /\ r.status_code = HTTP_400_BAD_REQUEST => ConflictCase(r)
              /\ r.status_code = HTTP_404_NOT_FOUND => NotFoundCase(r)
              /\ r.status_code = HTTP_403_FORBIDDEN => ForbiddenCase(r)
              /\ (ConflictCase(r) \/ NotFoundCase(r) \/ ForbiddenCase(r)) =>
                    r.status_code \in {HTTP_400_BAD_REQUEST, HTTP_404_NOT_FOUND,
                                       HTTP_403_FORBIDDEN}
              /\ r.status_code \notin {HTTP_200_OK, HTTP_400_BAD_REQUEST,
                                       HTTP_404_NOT_FOUND, HTTP_403_FORBIDDEN} =>
                    r.op = "comment" ]_vars

\* a government official who did not create the document asked to update it
\* and got Forbidden, not NotFound
C18_Witness ==
    /\ last.op = "update"
    /\ last.user = Colleague
    /\ last.id \in Ids(docs)
    /\ last.status_code = HTTP_403_FORBIDDEN

-----------------------------------------------------------------------------
(* Specification of the recommendations: the operation is a function of    *)
(* the document table, which is drawn from the tables that creates,        *)
(* updates and reads leave                                                 *)

\* a document after a create, updates of status and visibility, and
\* view_count reads
StoredDocument(k, category, status, is_public, view_count) ==
    [ NewDocument([ Payload(<<"c">>, <<"b">>, <<"b">>, NullText, Digit(k), category)
                    EXCEPT !.is_public = is_public ], Official.id, 0)
      EXCEPT !.status = status, !.view_count = view_count ]

\* what a row of the table may be: the view counts lie on both sides of 100
StoredVariants ==
    { <<"health", "active", TRUE, vc>> : vc \in {0, 99, 100, 250} }
        \cup { <<"health", "draft", TRUE, 100>>,
               <<"health", "active", FALSE, 100>>,
               <<"environment", "active", TRUE, 100>> }

StoredTables ==
    { [k \in 1..MaxDocs |-> StoredDocument(k, v[k][1], v[k][2], v[k][3], v[k][4])] :
        v \in [1..MaxDocs -> StoredVariants] }

RecommendInit ==
    /\ docs \in StoredTables
    /\ analytics = <<>>
    /\ comments = <<>>
    /\ now = 0
    /\ last = Idle
    /\ sessions = NoSessions
    /\ citations = <<>>
    /\ budgets = <<>>
    /\ transactions = <<>>
    /\ chat_sessions = <<>>
    /\ chat_messages = <<>>
    /\ evlog = EmptyLog

RecommendNext ==
    \/ \E category \in {None, "", "health"}, limit \in 0..MaxLimit, ord \in ScanOrders(docs) :
          Recommend(Citizen, category, limit, ord)
    \/ Respond

RecommendSpec == RecommendInit /\ [][RecommendNext]_vars

-----------------------------------------------------------------------------
(* Properties of the recommendations, checked under RecommendSpec *)

\* C19: the recommendations are at most `limit` documents, no document
\* twice, all of them active, public and, when a category is given, of that
\* category, in non-increasing order of view_count; the confidence score of
\* each, in hundredths, is view_count below 100 and 100 from there on, so it
\* lies between 0 and 1.
C19_RecommendationsRanked ==
    last.op = "recommend" =>
        LET body == last.body
            doc(k) == docs[body[k].policy_id]
        IN  /\ last.status_code = HTTP_200_OK
            /\ Len(body) <= last.limit
            /\ \A j, k \in 1..Len(body) : j # k => body[j].policy_id # body[k].policy_id
            /\ \A k \in 1..Len(body) :
                  /\ doc(k).status = "active"
                  /\ doc(k).is_public = TRUE
                  /\ last.category \notin {None, ""} => doc(k).category = last.category
                  /\ body[k].category = doc(k).category
                  /\ body[k].confidence_score \in 0..100
                  /\ body[k].confidence_score =
                        (IF doc(k).view_count >= 100 THEN 100 ELSE doc(k).view_count)
            /\ \A k \in 1..(Len(body) - 1) : doc(k).view_count >= doc(k + 1).view_count

\* the recommendations of a category fill the limit: a document of 250
\* views with confidence 1.0 comes before one of 99 views with confidence
\* 0.99, which is stored before it
C19_Witness ==
    /\ last.op = "recommend"
    /\ last.category = "health"
    /\ Len(last.body) = 2
    /\ last.limit = 2
    /\ docs[last.body[1].policy_id].view_count = 250
    /\ last.body[1].confidence_score = 100
    /\ last.body[2].confidence_score = 99
    /\ last.body[1].policy_id > last.body[2].policy_id

-----------------------------------------------------------------------------
(* get_policy_document on the worker threads, statement by statement. The  *)
(* datastore is MySQL at its default isolation: the first SELECT of a      *)
(* transaction fixes the snapshot its later SELECTs read, an UPDATE locks  *)
(* its row until the commit and writes the value the session computed.     *)

\* mutant: the commit leaves the analytics rows as they were
CommittedViews_Dropped(rows, snapshot, document_id, today, stamp) == rows

\* the analytics rows after the commit of a read: the lookup ran on the
\* snapshot of the session; `analytics.views += 1` writes the value the
\* session computed from the row it loaded, and the row it adds is new
CommittedViews(rows, snapshot, document_id, today, stamp) ==
    LET i == FirstAnalytics(snapshot, document_id, today)
    IN  IF i # 0
        THEN [rows EXCEPT ![i].views = IncrementViewCount(snapshot[i].views)]
        ELSE Append(rows, NewAnalytics(document_id, stamp, "views"))

\* the reads the ledger counts
RECURSIVE CompletedViews(_, _)
CompletedViews(d, day) ==
    IF day < 0 THEN 0 ELSE evlog[<<d, day, "view">>] + CompletedViews(d, day - 1)

InProgress == { w \in Workers : sessions.of[w].pc # "idle" }

\* document = db.query(PolicyDocument).filter(id == document_id).first(),
\* the checks, and document.view_count += 1 on the loaded object
LoadDocument(w, document_id) ==
    /\ last = Idle
    /\ sessions.of[w].pc = "idle"
    /\ document_id \in Ids(docs)
    /\ IsPublic(docs[document_id])
    /\ UNCHANGED other_tables
    /\ sessions' = [ of |-> [sessions.of EXCEPT ![w] =
                              [ pc |-> "loaded", id |-> document_id,
                                view_count |-> IncrementViewCount(docs[document_id].view_count),
                                snapshot |-> analytics ]],
                     overlapped |-> sessions.overlapped \/ InProgress # {} ]
    /\ UNCHANGED <<docs, analytics, comments, now, last, evlog>>

\* the query for the analytics row flushes the session first: the UPDATE
\* of the document waits for the lock of its row
FlushDocument(w) ==
    /\ sessions.of[w].pc = "loaded"
    /\ \A v \in Workers \ {w} :
          ~(sessions.of[v].pc = "flushed" /\ sessions.of[v].id = sessions.of[w].id)
    /\ UNCHANGED other_tables
    /\ sessions' = [sessions EXCEPT !.of[w].pc = "flushed"]
    /\ UNCHANGED <<docs, analytics, comments, now, last, evlog>>

\* db.commit(): the writes of the session reach the tables
CommitRead(w) ==
    /\ sessions.of[w].pc = "flushed"
    /\ LET session == sessions.of[w]
       IN  /\ docs' = [docs EXCEPT ![session.id].view_count = session.view_count,
                                   ![session.id].updated_at = now]
           /\ analytics' = CommittedViews(analytics, session.snapshot, session.id,
                                          DateOf(now), now)
           /\ evlog' = Logged(evlog, session.id, DateOf(now), "view")
    /\ UNCHANGED other_tables
    /\ sessions' = [sessions EXCEPT !.of[w] = IdleSession]
    /\ UNCHANGED <<comments, now, last>>

-----------------------------------------------------------------------------
(* Specification of concurrent reads *)

ConcurrentNext ==
    \/ \E w \in Workers, i \in {1, MaxDocs} :
          /\ CompletedViews(i, MaxDay + 1) + Cardinality(InProgress) < MaxEvents
          /\ LoadDocument(w, i)
    \/ \E w \in Workers : FlushDocument(w)
    \/ \E w \in Workers : CommitRead(w)

ConcurrentSpec == AnalyticsInit /\ [][ConcurrentNext]_vars

-----------------------------------------------------------------------------
(* Properties of concurrent reads, checked under ConcurrentSpec *)

ViewsStored(d) ==
    SumOf(SelectSeq(analytics, LAMBDA r : r.policy_document_id = d), "views")

\* C20: neither the view_count of a document nor the views its analytics
\* rows count exceed the reads that completed, and as long as no two
\* requests were in progress at once both equal that number: no increment
\* is lost under sequential execution. (That concurrent reads can lose one
\* is the state C20_Witness describes.)
C20_NoLossWhenSequential ==
    \A d \in Ids(docs) :
        LET completed == CompletedViews(d, MaxDay + 1)
        IN  /\ docs[d].view_count <= completed
            /\ ViewsStored(d) <= completed
            /\ ~sessions.overlapped =>
                  /\ docs[d].view_count = completed
                  /\ ViewsStored(d) = completed

\* two reads of a document ran at once on the day of an earlier read, all
\* of them completed, and both the view_count and the views of the day are
\* short of the number of reads
C20_Witness ==
    /\ InProgress = {}
    /\ sessions.overlapped
    /\ \E d \in Ids(docs) :
          /\ docs[d].view_count < CompletedViews(d, MaxDay + 1)
          /\ ViewsStored(d) < CompletedViews(d, MaxDay + 1)
          /\ Len(SelectSeq(analytics, LAMBDA r : r.policy_document_id = d)) = 1

-----------------------------------------------------------------------------
(* Specification of the document life cycle: the status column under      *)
(* create_policy_document and update_policy_document                       *)

\* the values the model comment names, and one it does not name
Statuses == {"draft", "active", "superseded", "repealed", "archived"}

StatusUpdates == { [status |-> s] : s \in Statuses }

StatusNext ==
    \/ \E p \in ModulePayloads : Create(Official, p)
    \/ \E u \in {Admin, Official, Colleague}, i \in 1..MaxDocs, raw \in StatusUpdates :
          Update(u, i, raw)
    \/ Respond

StatusSpec == Init /\ [][StatusNext]_vars

\* C21: status transitions are unconstrained: an update by the admin or the
\* creator of the document that supplies a status goes through and stores the
\* supplied status, whatever the status of the document was and whether or
\* not the new value is one of draft, active, superseded, repealed.
C21_StatusUnconstrained ==
    [][ /\ Handled("update")
        /\ last'.id \in Ids(docs)
        /\ "status" \in DOMAIN last'.args
        /\ (last'.user.role = "admin" \/ docs[last'.id].created_by = last'.user.id)
        /\ Elevated(last'.user)
        => /\ last'.status_code = HTTP_200_OK
           /\ last'.was = docs[last'.id].status
           /\ docs'[last'.id].status = last'.args.status ]_vars

\* a repealed document went back to draft, after it had held a status that
\* the model comment does not name
C21_Witness ==
    /\ last.op = "update"
    /\ last.status_code = HTTP_200_OK
    /\ last.was = "repealed"
    /\ docs[last.id].status = "draft"
    /\ \E d \in Ids(docs) : docs[d].status = "archived"

-----------------------------------------------------------------------------
(* Properties of add_policy_comment, checked under AnalyticsSpec *)

CommentsCounted(rows, d, day) == SumOf(RowsOn(rows, d, day), "comments_count")

\* C22 as claimed: a comment on an existing document succeeds for any
\* authenticated caller, stores exactly one new comment attached to that
\* document with the caller as commenter and raises today's comments_count of
\* the document by exactly 1; a comment on an id that no document has fails
\* with NotFound and stores nothing.
C22_AsClaimed ==
    [][ Handled("comment") =>
          IF last'.id \in Ids(docs)
          THEN /\ last'.status_code = HTTP_200_OK
               /\ Len(comments') = Len(comments) + 1
               /\ SubSeq(comments', 1, Len(comments)) = comments
               /\ comments'[Len(comments')].policy_document_id = last'.id
               /\ comments'[Len(comments')].commenter_id = last'.user.id
               /\ CommentsCounted(analytics', last'.id, DateOf(now)) =
                      CommentsCounted(analytics, last'.id, DateOf(now)) + 1
          ELSE /\ last'.status_code = HTTP_404_NOT_FOUND
               /\ comments' = comments
               /\ analytics' = analytics ]_vars

-----------------------------------------------------------------------------
(* Citation graph.  The module declares the policy_citations table and the *)
(* CitationNetwork schema; the operations are those of the design,         *)
(* section 4.3, and the citation event that of section 4.2.                *)

\* PolicyCitation(citing_document_id=..., cited_document_id=...,
\* citation_context=...), created_at from the server default
NewCitation(citing_id, cited_id, context, t) ==
    [ citing_document_id |-> citing_id, cited_document_id |-> cited_id,
      citation_context |-> context, created_at |-> t ]

\* mutant: an edge from a document to itself is turned down
AcceptsEdge_NoSelfLoop(rows, citing_id, cited_id) == citing_id # cited_id

\* add_citation does not validate against self-loops or duplicates
AcceptsEdge(rows, citing_id, cited_id) == TRUE

\* the edges whose target is the document
inbound(rows, document_id) ==
    { k \in Ids(rows) : rows[k].cited_document_id = document_id }

\* the edges whose source is the document
outbound(rows, document_id) ==
    { k \in Ids(rows) : rows[k].citing_document_id = document_id }

\* add_citation(citing_id, cited_id, context?): both ids are documents (the
\* columns are foreign keys); the citation event goes to the analytics row
\* of the cited document
AddCitation(citing_id, cited_id, context) ==
    /\ last = Idle
    /\ {citing_id, cited_id} \subseteq Ids(docs)
    /\ IF AcceptsEdge(citations, citing_id, cited_id)
       THEN /\ citations' = Append(citations, NewCitation(citing_id, cited_id, context, now))
            /\ analytics' = UpsertAnalytics(analytics, cited_id, DateOf(now), now,
                                            "citations_count")
            /\ last' = [op |-> "add_citation", status_code |-> HTTP_200_OK,
                        citing_id |-> citing_id, cited_id |-> cited_id,
                        context |-> context, body |-> Len(citations) + 1]
       ELSE /\ last' = [op |-> "add_citation", status_code |-> HTTP_400_BAD_REQUEST,
                        citing_id |-> citing_id, cited_id |-> cited_id,
                        context |-> context]
            /\ UNCHANGED <<citations, analytics>>
    /\ UNCHANGED <<docs, comments, now, evlog, sessions>>
    /\ UNCHANGED <<budgets, transactions, chat_sessions, chat_messages>>

CitationNext ==
    \/ \E citing_id \in {1, MaxDocs}, cited_id \in {1, MaxDocs}, context \in {None} :
          Len(citations) < MaxEvents /\ AddCitation(citing_id, cited_id, context)
    \/ Tick
    \/ Respond

CitationSpec == AnalyticsInit /\ [][CitationNext]_vars

CitationsCounted(rows, d, day) == SumOf(RowsOn(rows, d, day), "citations_count")

\* C23: add_citation creates the directed edge it is given, a self-loop or a
\* duplicate of a stored edge included; the new edge is among outbound of the
\* citing document and among inbound of the cited document; and the
\* citations_count of the cited document for the day goes up by 1.
C23_AddCitation ==
    [][ Handled("add_citation") =>
          LET e == Len(citations) + 1 IN
          /\ last'.status_code = HTTP_200_OK
          /\ Len(citations') = e
          /\ SubSeq(citations', 1, Len(citations)) = citations
          /\ citations'[e].citing_document_id = last'.citing_id
          /\ citations'[e].cited_document_id = last'.cited_id
          /\ citations'[e].citation_context = last'.context
          /\ e \in outbound(citations', last'.citing_id)
          /\ e \in inbound(citations', last'.cited_id)
          /\ \A d \in Ids(docs), day \in Days :
                CitationsCounted(analytics', d, day) =
                   CitationsCounted(analytics, d, day) +
                      (IF d = last'.cited_id /\ day = DateOf(now) THEN 1 ELSE 0) ]_vars

\* a self-loop was stored twice, and both edges were counted on the day
C23_Witness ==
    /\ last.op = "add_citation"
    /\ \E j, k \in Ids(citations) :
          /\ j < k
          /\ k = last.body
          /\ citations[j].citing_document_id = citations[j].cited_document_id
          /\ citations[k].citing_document_id = citations[j].citing_document_id
          /\ citations[k].cited_document_id = citations[j].cited_document_id
          /\ {j, k} \subseteq inbound(citations, citations[j].cited_document_id)
          /\ {j, k} \subseteq outbound(citations, citations[j].citing_document_id)
          /\ CitationsCounted(analytics, citations[j].cited_document_id, DateOf(now)) = 2

-----------------------------------------------------------------------------
(* chat_with_ai (src/backend/app/ai/routers.py): the chat_sessions and     *)
(* chat_messages tables.  A message content is a string; created_at is the *)
(* clock of the insert.                                                    *)

MaxChats == 2

\* session_id: Optional[int] = None
NullId == -1

\* if chat_request.session_id: neither None nor 0
GivenSession(chat_request) ==
    chat_request.session_id # NullId /\ chat_request.session_id # 0

build_government_system_prompt == "government"

\* ChatSession(user_id=..., model=..., system_prompt=chat_request.system_prompt
\* or build_government_system_prompt())
NewChatSession(user, chat_request) ==
    [ user_id |-> user.id,
      system_prompt |-> IF Truthy(chat_request.system_prompt)
                        THEN chat_request.system_prompt
                        ELSE build_government_system_prompt ]

\* ChatMessage(session_id=..., role=..., content=...)
NewChatMessage(session_id, role, content, t) ==
    [ session_id |-> session_id, role |-> role, content |-> content, created_at |-> t ]

\* db.query(ChatSession).filter(id == session_id, user_id == current_user.id).first()
OwnSession(tbl, session_id, user) ==
    session_id \in Ids(tbl) /\ tbl[session_id].user_id = user.id

MessagesOf(rows, session_id) == { k \in Ids(rows) : rows[k].session_id = session_id }

\* the orders in which ORDER BY created_at may return the rows S: ascending
\* in created_at, rows of equal created_at in any order
RECURSIVE OrderedBy(_, _)
OrderedBy(rows, S) ==
    IF S = {} THEN { <<>> }
    ELSE LET first == { k \in S : \A j \in S : rows[k].created_at <= rows[j].created_at }
         IN  UNION { { <<k>> \o rest : rest \in OrderedBy(rows, S \ {k}) } : k \in first }

\* the message list for the API: the system prompt of the session, the
\* conversation history, the new user message
api_messages(session, messages, message) ==
    (IF Truthy(session.system_prompt)
     THEN << [role |-> "system", content |-> session.system_prompt] >> ELSE << >>)
    \o [k \in 1..Len(messages) |-> [role |-> messages[k].role, content |-> messages[k].content]]
    \o << [role |-> "user", content |-> message] >>

\* except Exception as e: raise HTTPException(500, f"AI chat error: {e}")
ChatError(e) == HTTP_500_INTERNAL_SERVER_ERROR

\* the outcome of openrouter.chat_completion
UpstreamError == "OpenRouter API error"

Chat(user, chat_request, completion, c) ==
    /\ last = Idle
    /\ IF GivenSession(chat_request)
          /\ ~OwnSession(chat_sessions, chat_request.session_id, user)
       THEN /\ last' = [op |-> "chat", status_code |-> ChatError(HTTP_404_NOT_FOUND),
                        user |-> user, request |-> chat_request, upstream |-> "not called"]
            /\ UNCHANGED <<chat_sessions, chat_messages>>
       ELSE LET created == ~GivenSession(chat_request)
                sessions_now == IF created
                                THEN Append(chat_sessions, NewChatSession(user, chat_request))
                                ELSE chat_sessions
                session_id == IF created THEN Len(sessions_now) ELSE chat_request.session_id
                history == [k \in 1..Len(c) |-> chat_messages[c[k]]]
                sent == api_messages(sessions_now[session_id], history, chat_request.message)
            IN  /\ c \in OrderedBy(chat_messages, MessagesOf(chat_messages, session_id))
                /\ chat_sessions' = sessions_now
                /\ IF completion = UpstreamError
                   THEN /\ last' = [op |-> "chat", status_code |-> ChatError(completion),
                                    user |-> user, request |-> chat_request,
                                    upstream |-> "failed", session_id |-> session_id,
                                    sent |-> sent]
                        /\ UNCHANGED chat_messages
                   ELSE /\ chat_messages' =
                              chat_messages \o
                              << NewChatMessage(session_id, "user", chat_request.message, now),
                                 NewChatMessage(session_id, "assistant", completion, now) >>
                        /\ last' = [op |-> "chat", status_code |-> HTTP_200_OK,
                                    user |-> user, request |-> chat_request,
                                    upstream |-> "succeeded", session_id |-> session_id,
                                    sent |-> sent, response |-> completion]
    /\ UNCHANGED <<policy_tables, now, citations, budgets, transactions>>

\* requests that open a session, and requests that name one
OpeningRequests ==
    { [message |-> "q", session_id |-> i, system_prompt |-> sp] :
         i \in {NullId, 0}, sp \in {None, "custom"} }

NamingRequests ==
    { [message |-> "q", session_id |-> i, system_prompt |-> None] :
         i \in 1..(MaxChats + 1) }

\* the official opens sessions and chats in them; the citizen names them
ChatNext ==
    \/ \E call \in ({Official} \X (OpeningRequests \cup NamingRequests))
                    \cup ({Citizen} \X NamingRequests),
          completion \in {UpstreamError, "a"} :
       \E c \in OrderedBy(chat_messages, MessagesOf(chat_messages, call[2].session_id)) :
          /\ Len(chat_sessions) < MaxChats \/ call[2].session_id \in Ids(chat_sessions)
          /\ Len(chat_messages) < 2 * MaxChats
          /\ Chat(call[1], call[2], completion, c)
    \/ Tick
    \/ Respond

ChatSpec == Init /\ [][ChatNext]_vars

\* the request names a session that does not exist or is another user's
SessionMissing(r) ==
    /\ r.request.session_id \in 1..(MaxChats + 1)
    /\ ~OwnSession(chat_sessions, r.request.session_id, r.user)

\* C24 as claimed: a chat request whose session_id names no session, or a
\* session of another user, fails with NotFound, which is not the outcome of
\* an upstream failure, and appends no message to any session.
C24_AsClaimed ==
    [][ Handled("chat") /\ SessionMissing(last') =>
          /\ last'.status_code = HTTP_404_NOT_FOUND
          /\ last'.status_code # ChatError(UpstreamError)
          /\ chat_messages' = chat_messages ]_vars

-----------------------------------------------------------------------------
(* Properties of the counters, checked under AnalyticsSpec *)

RowsOf(rows, d) == SelectSeq(rows, LAMBDA r : r.policy_document_id = d)

\* C25: under sequential execution the view_count of every document equals
\* the sum of `views` over all of its analytics rows.
C25_ViewCountIsSumOfViews ==
    \A d \in Ids(docs) : docs[d].view_count = SumOf(RowsOf(analytics, d), "views")

\* a document was read on two days and returned by a search: its views are
\* spread over two rows, and a row of another document counts none
C25_Witness ==
    \E d \in Ids(docs) :
        /\ docs[d].view_count = 2
        /\ \E i, j \in Ids(analytics) :
              /\ i # j
              /\ analytics[i].policy_document_id = d /\ analytics[i].views = 1
              /\ analytics[j].policy_document_id = d /\ analytics[j].views = 1
        /\ \E k \in Ids(analytics) :
              /\ analytics[k].policy_document_id # d
              /\ analytics[k].search_appearances > 0
              /\ analytics[k].views = 0

-----------------------------------------------------------------------------
(* Specification of the search pre-filter: searches whose query occurs in *)
(* the keywords or the document_number of a stored document                *)

PrefilterQueries == { <<"b">>, <<"k">>, <<"3">> }

PrefilterNext ==
    \/ \E p \in SearchPayloads : Create(Admin, p)
    \/ \E u \in SearchUpdates : Update(Admin, 1, u)
    \/ \E q \in PrefilterQueries, l \in 0..MaxLimit, g \in SearchFilters,
          ord \in ScanOrders(docs) :
            /\ TotalEvents(analytics) < MaxSearchEvents
            /\ Search(SearchArgs(q, 0, l, g), ord, NoTick)
    \/ Respond

PrefilterSpec == Init /\ [][PrefilterNext]_vars


\* the query matches the document in a column that has a tier
MatchesInTier(d, query) ==
    ilike(d.title, query) \/ ilike(d.summary, query) \/ ilike(d.content, query)

\* the query matches the document in keywords or document_number only
MatchesOutsideTiersOnly(d, query) ==
    /\ ilike(d.keywords, query) \/ ilike(d.document_number, query)
    /\ ~MatchesInTier(d, query)

\* C26: every document a search returns matches the query in title, summary
\* or content; a document that the pre-filter admits on its keywords or its
\* document_number alone is not returned.
C26_OnlyTierMatchesReturned ==
    SearchPending =>
        \A d \in Ids(docs) :
            /\ Returned(last.body, d) => MatchesInTier(docs[d], last.args.query)
            /\ MatchesOutsideTiersOnly(docs[d], last.args.query) => ~Returned(last.body, d)

\* a search whose pre-filter admits a document on its keywords alone, with
\* room in the limit, returned nothing
C26_Witness ==
    /\ SearchPending
    /\ last.args.limit > 0
    /\ last.args.skip = 0
    /\ last.body = <<>>
    /\ \E d \in Ids(docs) :
          /\ InSearchQuery(docs[d], last.args)
          /\ MatchesOutsideTiersOnly(docs[d], last.args.query)
          /\ ilike(docs[d].keywords, last.args.query)

\* C27: the downloads and citations_count of every analytics row are 0, so
\* every report has total_downloads = 0 and total_citations = 0 and its
\* engagement score is (total_views + total_comments * 5) / days.
C27_DownloadsAndCitationsStayZero ==
    /\ \A k \in Ids(analytics) :
          analytics[k].downloads = 0 /\ analytics[k].citations_count = 0
    /\ ReportPending =>
          /\ last.body.total_downloads = 0
          /\ last.body.total_citations = 0
          /\ last.body.score_num = last.body.total_views + last.body.total_comments * 5

\* a report over rows that count views and search appearances: its score is
\* the number of views
C27_Witness ==
    /\ ReportPending
    /\ last.body.total_views > 1
    /\ last.body.search_appearances > 0
    /\ last.body.total_downloads = 0
    /\ last.body.total_citations = 0
    /\ last.body.score_num = last.body.total_views

-----------------------------------------------------------------------------
(* Properties of visibility, checked under ModuleSpec *)

\* the documents a response of an operation without a principal discloses
Disclosed(r) ==
    CASE r.op = "search" -> { r.body[k].id : k \in 1..Len(r.body) }
      [] r.op = "list" -> { r.body[k] : k \in 1..Len(r.body) }
      [] r.op = "read" /\ r.status_code = HTTP_200_OK -> { r.id }
      [] OTHER -> {}

\* C28 as claimed: no operation that needs no principal (search, read by id,
\* document listing) returns a document whose is_public is false.
C28_AsClaimed ==
    \A d \in Disclosed(last) : docs[d].is_public = TRUE

-----------------------------------------------------------------------------
(* Budgets and transactions (src/backend/app/finance/routers.py).  Amounts *)
(* are whole numbers.                                                      *)

\* Budget(**budget.dict(), created_by=...), spent_amount at its default
NewBudget(budget, user) ==
    [ department |-> budget.department, allocated_amount |-> budget.allocated_amount,
      spent_amount |-> 0, created_by |-> user.id ]

\* Transaction(**transaction.dict(), created_by=...), status at its default
NewTransaction(transaction, user) ==
    [ budget_id |-> transaction.budget_id, amount |-> transaction.amount,
      transaction_type |-> transaction.transaction_type, status |-> "pending",
      approved_by |-> None, created_by |-> user.id ]

CreateBudget(user, budget) ==
    /\ last = Idle
    /\ IF ~CanWrite(user)
       THEN /\ last' = [op |-> "create_budget", status_code |-> HTTP_403_FORBIDDEN,
                        user |-> user]
            /\ UNCHANGED budgets
       ELSE /\ budgets' = Append(budgets, NewBudget(budget, user))
            /\ last' = [op |-> "create_budget", status_code |-> HTTP_200_OK,
                        user |-> user, id |-> Len(budgets) + 1]
    /\ UNCHANGED <<policy_tables, now, citations, transactions, chat_sessions, chat_messages>>

CreateTransaction(user, transaction) ==
    /\ last = Idle
    /\ IF ~CanWrite(user)
       THEN /\ last' = [op |-> "create_transaction", status_code |-> HTTP_403_FORBIDDEN,
                        user |-> user]
            /\ UNCHANGED transactions
       ELSE IF transaction.budget_id \notin Ids(budgets)
       THEN /\ last' = [op |-> "create_transaction", status_code |-> HTTP_404_NOT_FOUND,
                        user |-> user]
            /\ UNCHANGED transactions
       ELSE /\ transactions' = Append(transactions, NewTransaction(transaction, user))
            /\ last' = [op |-> "create_transaction", status_code |-> HTTP_200_OK,
                        user |-> user, id |-> Len(transactions) + 1]
    /\ UNCHANGED <<policy_tables, now, citations, budgets, chat_sessions, chat_messages>>

ApproveTransaction(user, transaction_id) ==
    /\ last = Idle
    /\ IF user.role # "admin"
       THEN /\ last' = [op |-> "approve_transaction", status_code |-> HTTP_403_FORBIDDEN,
                        user |-> user, id |-> transaction_id]
            /\ UNCHANGED <<budgets, transactions>>
       ELSE IF transaction_id \notin Ids(transactions)
       THEN /\ last' = [op |-> "approve_transaction", status_code |-> HTTP_404_NOT_FOUND,
                        user |-> user, id |-> transaction_id]
            /\ UNCHANGED <<budgets, transactions>>
       ELSE LET transaction == transactions[transaction_id] IN
            /\ transactions' = [transactions EXCEPT
                                   ![transaction_id].status = "approved",
                                   ![transaction_id].approved_by = user.id]
            /\ budgets' = IF /\ transaction.transaction_type = "expense"
                             /\ transaction.budget_id \in Ids(budgets)
                          THEN [budgets EXCEPT ![transaction.budget_id].spent_amount =
                                                   @ + transaction.amount]
                          ELSE budgets
            /\ last' = [op |-> "approve_transaction", status_code |-> HTTP_200_OK,
                        user |-> user, id |-> transaction_id,
                        was |-> transaction.status]
    /\ UNCHANGED <<policy_tables, now, citations, chat_sessions, chat_messages>>

SomeBudgets == { [department |-> "water", allocated_amount |-> 2] }

SomeTransactions ==
    { [budget_id |-> b, amount |-> ta[2], transaction_type |-> ta[1]] :
         b \in {1, MaxDocs + 1},
         ta \in { <<"expense", 1>>, <<"expense", 2>>, <<"income", 1>> } }

\* the amount approved so far, over all budgets
TotalSpent(tbl) ==
    SumOf([k \in Ids(tbl) |-> [spent_amount |-> tbl[k].spent_amount]], "spent_amount")

FinanceNext ==
    \/ \E u \in {Official, Citizen}, b \in SomeBudgets :
          Len(budgets) < MaxDocs /\ CreateBudget(u, b)
    \/ \E u \in {Official, Citizen}, t \in SomeTransactions :
          Len(transactions) < MaxLimit /\ CreateTransaction(u, t)
    \/ \E u \in {Admin, Official}, i \in 1..(MaxLimit + 1) :
          TotalSpent(budgets) < MaxEvents /\ ApproveTransaction(u, i)
    \/ Respond

FinanceSpec == Init /\ [][FinanceNext]_vars

\* the amounts of the approved expense transactions of a budget, each
\* transaction counted once
ApprovedExpenses(b) ==
    SumOf(SelectSeq(transactions,
                    LAMBDA t : /\ t.budget_id = b
                               /\ t.transaction_type = "expense"
                               /\ t.status = "approved"),
          "amount")

\* C29 as claimed: the spent_amount of every budget is its initial value, 0,
\* plus the amounts of its approved expense transactions, each counted once;
\* approving an approved transaction again leaves spent_amount as it is.
C29_AsClaimed ==
    \A b \in Ids(budgets) : budgets[b].spent_amount = ApprovedExpenses(b)

-----------------------------------------------------------------------------
(* Properties of the chat, checked under ChatSpec *)

\* the messages of a session in creation order, as the API takes them
StoredMessages(rows, session_id) ==
    LET own == SelectSeq(rows, LAMBDA m : m.session_id = session_id)
    IN  [k \in 1..Len(own) |-> [role |-> own[k].role, content |-> own[k].content]]

\* the roles alternate user, assistant and the last one is assistant
Alternating(messages) ==
    /\ Len(messages) % 2 = 0
    /\ \A k \in 1..Len(messages) :
          messages[k].role = (IF k % 2 = 1 THEN "user" ELSE "assistant")

\* C30 as claimed: a chat request stores no message when the upstream
\* completion fails and appends exactly one user message followed by one
\* assistant message to the session when it succeeds; every session holds an
\* even number of messages alternating user, assistant; and the history sent
\* upstream is the system prompt, then the stored messages of the session in
\* creation order, then the new user message.
C30_AsClaimed ==
    [][ Handled("chat") =>
          /\ last'.upstream # "succeeded" => chat_messages' = chat_messages
          /\ last'.upstream = "succeeded" =>
                /\ Len(chat_messages') = Len(chat_messages) + 2
                /\ SubSeq(chat_messages', 1, Len(chat_messages)) = chat_messages
                /\ StoredMessages(chat_messages', last'.session_id) =
                      StoredMessages(chat_messages, last'.session_id) \o
                      << [role |-> "user", content |-> last'.request.message],
                         [role |-> "assistant", content |-> last'.response] >>
          /\ \A i \in Ids(chat_sessions') :
                Alternating(StoredMessages(chat_messages', i))
          /\ last'.upstream # "not called" =>
                last'.sent =
                   << [role |-> "system",
                       content |-> chat_sessions'[last'.session_id].system_prompt] >>
                   \o StoredMessages(chat_messages, last'.session_id)
                   \o << [role |-> "user", content |-> last'.request.message] >> ]_vars

====
